---- MODULE Spec2Model ----
(***************************************************************************)
(* Model of src/image/cleanup_image.py: process_image, the grayscale /     *)
(* enhance / resize / binarize / save pipeline, and the batch driver that  *)
(* calls it.  The filesystem and the imaging library are modelled by what  *)
(* process_image asks of them.                                             *)
(***************************************************************************)
EXTENDS Integers, Sequences, FiniteSets, TLC

VARIABLES
    fs,          \* path -> file content
    dirs,        \* set of existing directories (each a sequence of names)
    fs0, dirs0,  \* the filesystem as it was when the current call started
    calls,       \* number of calls of process_image started so far
    pc,          \* worker -> position inside process_image
    args,        \* worker -> arguments of the running call
    err,         \* worker -> exception that ended the call, or "none"
    trace,       \* worker -> pipeline stages performed, in order
    im,          \* worker -> the raster bound to `im`
    save_params, \* worker -> the dict built at lines 71-83
    created,     \* worker -> whether save created the destination file
    mk,          \* worker -> pending Path.mkdir calls of line 38, innermost first
    calc         \* scratch record of the pure-function specifications

vars == <<fs, dirs, fs0, dirs0, calls, pc, args, err, trace, im, save_params,
          created, mk, calc>>

workerVars == <<pc, args, err, trace, im, save_params, created, mk>>
fsVars == <<fs, dirs, fs0, dirs0, calls>>

Procs == {1, 2}
\* Calls the sequential driver makes, and calls parallel workers make in all.
MaxCalls == 1
MaxConcCalls == 2

(***************************************************************************)
(* Paths.  A path is a directory (sequence of directory names) and a file  *)
(* name (sequence of characters, so that the suffix can be computed).      *)
(***************************************************************************)
Root == << >>
DirOut == <<"out">>
DirSub == <<"out", "sub">>

PathA == [dir |-> Root, name |-> <<"a", ".", "p", "n", "g">>]
PathJ == [dir |-> Root, name |-> <<"j", ".", "j", "p", "g">>]
PathX == [dir |-> Root, name |-> <<"x", ".", "p", "n", "g">>]
PathM == [dir |-> Root, name |-> <<"m", ".", "p", "n", "g">>]
PathB == [dir |-> DirOut, name |-> <<"b", ".", "J", "P", "G">>]
PathC == [dir |-> DirSub, name |-> <<"c", ".", "w", "e", "b", "p">>]
PathD == [dir |-> Root, name |-> <<"d", ".", "p", "n", "g">>]
PathE == [dir |-> Root, name |-> <<"e">>]

InPaths == {PathA, PathJ, PathX, PathM}
OutPaths == {PathA, PathB, PathC, PathD, PathE}
Paths == InPaths \cup OutPaths

\* File contents.
NoFile == [kind |-> "none", w |-> 0, h |-> 0, mode |-> "none", exif |-> "None"]
Corrupt == [kind |-> "corrupt", w |-> 0, h |-> 0, mode |-> "none", exif |-> "None"]
Partial == [kind |-> "partial", w |-> 0, h |-> 0, mode |-> "none", exif |-> "None"]
ImageFile(w, h, mode, exif) ==
    [kind |-> "image", w |-> w, h |-> h, mode |-> mode, exif |-> exif]

NoImage == [w |-> 0, h |-> 0, mode |-> "none", exif |-> "None"]
EmptyDict == << >>

\* Path.exists()
Exists(path) == fs[path].kind # "none"
DirExists(d) == d \in dirs

\* Path.parent
Parent(path) == path.dir

Prefixes(d) == {SubSeq(d, 1, n) : n \in 0..Len(d)}

(***************************************************************************)
(* Arguments.  Floats are modelled as rationals n/d (d > 0); the factors   *)
(* are in tenths.                                                          *)
(***************************************************************************)
Rat(n, d) == [n |-> n, d |-> d]

Scales == {Rat(-1, 1), Rat(0, 1), Rat(1, 2), Rat(2, 1)}

\* (brightness_factor, contrast_factor, sharpness_factor); the first triple is
\* the defaults of lines 9-11.
FactorTriples == {<<Rat(12, 10), Rat(9, 10), Rat(13, 10)>>,
                  <<Rat(-1, 1), Rat(9, 10), Rat(13, 10)>>,
                  <<Rat(12, 10), Rat(0, 1), Rat(13, 10)>>,
                  <<Rat(12, 10), Rat(9, 10), Rat(-2, 1)>>}

\* (pure_bw, bw_threshold, dither); the first triple is the defaults.
BwTriples == {<<FALSE, 128, TRUE>>, <<TRUE, 128, TRUE>>,
              <<TRUE, 128, FALSE>>, <<TRUE, 300, TRUE>>}

MkArgs(i, o, s, f, b) ==
    [input_path |-> i, output_path |-> o, scale_factor |-> s,
     brightness_factor |-> f[1], contrast_factor |-> f[2],
     sharpness_factor |-> f[3],
     pure_bw |-> b[1], bw_threshold |-> b[2], dither |-> b[3]]

NoArgs == MkArgs(PathM, PathE, Rat(0, 1), <<Rat(0, 1), Rat(0, 1), Rat(0, 1)>>,
                 <<FALSE, 0, FALSE>>)

ArgSpace == {MkArgs(i, o, s, f, b) :
                i \in InPaths, o \in OutPaths, s \in Scales,
                f \in FactorTriples, b \in BwTriples}

\* Workers that run side by side share the destination tree.
ConcArgSpace == {MkArgs(i, o, Rat(2, 1), <<Rat(12, 10), Rat(9, 10), Rat(13, 10)>>, b) :
                    i \in {PathA}, o \in {PathB, PathC, PathD},
                    b \in {<<FALSE, 128, TRUE>>, <<TRUE, 128, TRUE>>}}

Positive(r) == r.n > 0

(***************************************************************************)
(* Initial filesystem: two readable sources, one corrupt file, optionally  *)
(* an older destination file and an existing output directory.             *)
(***************************************************************************)
BaseFiles ==
    [p \in Paths |->
        CASE p = PathA -> ImageFile(3, 5, "RGB", "None")
          [] p = PathJ -> ImageFile(5, 2, "RGB", "E")
          [] p = PathX -> Corrupt
          [] OTHER -> NoFile]

InitWorkers ==
    /\ pc = [p \in Procs |-> "idle"]
    /\ args = [p \in Procs |-> NoArgs]
    /\ err = [p \in Procs |-> "none"]
    /\ trace = [p \in Procs |-> << >>]
    /\ im = [p \in Procs |-> NoImage]
    /\ save_params = [p \in Procs |-> EmptyDict]
    /\ created = [p \in Procs |-> FALSE]
    /\ mk = [p \in Procs |-> << >>]

InitFs ==
    /\ \E old \in BOOLEAN :
          fs = [BaseFiles EXCEPT ![PathD] =
                    IF old THEN ImageFile(2, 2, "L", "None") ELSE NoFile]
    /\ dirs \in {{Root}, {Root, DirOut}}
    /\ fs0 = fs
    /\ dirs0 = dirs
    /\ calls = 0

Init == InitWorkers /\ InitFs /\ calc = [op |-> "none"]

(***************************************************************************)
(* Pure helpers.                                                           *)
(***************************************************************************)
Max(a, b) == IF a >= b THEN a ELSE b

\* Python 3 round() of the rational n/d (d > 0): to the nearest integer, a tie
\* going to the even neighbour.
\* Faulty variant: int() alone, without round().
PyRoundFloor(n, d) == n \div d

PyRound(n, d) ==
    LET q == n \div d
        r == n % d
    IN  IF 2 * r < d THEN q
        ELSE IF 2 * r > d THEN q + 1
        ELSE IF q % 2 = 0 THEN q ELSE q + 1

\* max(1, int(round(size * scale_factor)))
NewDim(size, s) == Max(1, PyRound(size * s.n, s.d))

\* str.lower() on the letters that occur in the modelled names.
UpperChars == <<"J", "P", "G", "E", "N", "W", "B", "X">>
LowerChars == <<"j", "p", "g", "e", "n", "w", "b", "x">>

LowerChar(c) ==
    IF \E i \in 1..Len(UpperChars) : UpperChars[i] = c
    THEN LowerChars[CHOOSE i \in 1..Len(UpperChars) : UpperChars[i] = c]
    ELSE c

Lower(name) == [i \in 1..Len(name) |-> LowerChar(name[i])]

\* PurePath.suffix: from the last dot of the name, unless that dot is the
\* first or the last character.
LastDot(name) ==
    IF \E i \in 1..Len(name) : name[i] = "."
    THEN CHOOSE i \in 1..Len(name) :
            name[i] = "." /\ \A j \in (i + 1)..Len(name) : name[j] # "."
    ELSE 0

Suffix(name) ==
    LET i == LastDot(name)
    IN  IF 1 < i /\ i < Len(name) THEN SubSeq(name, i, Len(name)) ELSE << >>

\* os.path.splitext(name)[1], which im.save uses to pick the encoder: from the
\* last dot of the name, unless only dots precede it.
SplitExt(name) ==
    LET i == LastDot(name)
    IN  IF i > 0 /\ \E j \in 1..(i - 1) : name[j] # "."
        THEN SubSeq(name, i, Len(name))
        ELSE << >>

\* im.info["exif"] of the result of ImageEnhance.*.enhance on an image whose
\* info holds exif: Brightness and Contrast blend a freshly made image with
\* im, and the result takes the info of the fresh one, which is empty.
EnhanceInfo(exif) == "None"

\* bool(exif_bytes): None and b"" are false.
Truthy(exif) == exif \notin {"None", ""}

ExtJpg == <<".", "j", "p", "g">>
ExtJpeg == <<".", "j", "p", "e", "g">>
ExtWebp == <<".", "w", "e", "b", "p">>
ExtPng == <<".", "p", "n", "g">>

\* The dict built at lines 70-83 from the destination name and im.info["exif"].
SelectSaveParams(name, exif_bytes) ==
    LET suffix == Lower(Suffix(name))
    IN  IF suffix \in {ExtJpg, ExtJpeg}
        THEN IF Truthy(exif_bytes)
             THEN [quality |-> 90, subsampling |-> 0, optimize |-> TRUE,
                   exif |-> exif_bytes]
             ELSE [quality |-> 90, subsampling |-> 0, optimize |-> TRUE]
        ELSE IF suffix = ExtWebp
        THEN [quality |-> 95, method |-> 6]
        ELSE IF suffix = ExtPng
        THEN [optimize |-> TRUE]
        ELSE EmptyDict

(***************************************************************************)
(* Binarizer.  A raster is a sequence of rows of 8-bit pixels.             *)
(***************************************************************************)
\* im.point(lambda p: 255 if p >= bw_threshold else 0, mode='L')
\* Faulty variant: p > bw_threshold.
PointStrict(raster, bw_threshold) ==
    [y \in 1..Len(raster) |->
        [x \in 1..Len(raster[y]) |->
            IF raster[y][x] > bw_threshold THEN 255 ELSE 0]]

Point(raster, bw_threshold) ==
    [y \in 1..Len(raster) |->
        [x \in 1..Len(raster[y]) |->
            IF raster[y][x] >= bw_threshold THEN 255 ELSE 0]]

\* C integer division (truncates toward zero) and clipping to 0..255.
TruncDiv(a, b) == IF a >= 0 THEN a \div b ELSE -((-a) \div b)
Clip8(v) == IF v < 0 THEN 0 ELSE IF v > 255 THEN 255 ELSE v

\* convert('1', dither=NONE): each pixel on its own.
NoDither(raster) ==
    [y \in 1..Len(raster) |->
        [x \in 1..Len(raster[y]) |-> IF raster[y][x] >= 128 THEN 255 ELSE 0]]

\* convert('1', dither=FLOYDSTEINBERG): one row of the error diffusion.  st
\* carries the running error l, the two delayed terms l0 and l1, the error
\* row (one entry more than the row is wide) and the output so far.
RECURSIVE FSRow(_, _, _)
FSRow(row, x, st) ==
    IF x > Len(row)
    THEN [out |-> st.out, errors |-> [st.errors EXCEPT ![x] = st.l0]]
    ELSE LET l   == Clip8(row[x] + TruncDiv(st.l + st.errors[x + 1], 16))
             o   == IF l > 128 THEN 255 ELSE 0
             e   == l - o
         IN  FSRow(row, x + 1,
                   [l      |-> 7 * e,
                    l0     |-> 5 * e + st.l1,
                    l1     |-> e,
                    errors |-> [st.errors EXCEPT ![x] = 3 * e + st.l0],
                    out    |-> Append(st.out, o)])

RECURSIVE FSRows(_, _, _)
FSRows(raster, y, errors) ==
    IF y > Len(raster) THEN << >>
    ELSE LET r == FSRow(raster[y], 1,
                        [l |-> 0, l0 |-> 0, l1 |-> 0, errors |-> errors,
                         out |-> << >>])
         IN  <<r.out>> \o FSRows(raster, y + 1, r.errors)

FloydSteinberg(raster) ==
    IF Len(raster) = 0 THEN << >>
    ELSE FSRows(raster, 1, [i \in 1..(Len(raster[1]) + 1) |-> 0])

\* im.convert('1', dither=FLOYDSTEINBERG if dither else NONE)
Convert1(raster, dither) ==
    IF dither THEN FloydSteinberg(raster) ELSE NoDither(raster)

\* Lines 63-64.
Binarize(raster, bw_threshold, dither) ==
    Convert1(Point(raster, bw_threshold), dither)

(***************************************************************************)
(* process_image, one action per statement that touches shared state or    *)
(* performs a pipeline stage.                                              *)
(***************************************************************************)
Raise(p, e) ==
    /\ pc' = [pc EXCEPT ![p] = "raised"]
    /\ err' = [err EXCEPT ![p] = e]

Goto(p, label) ==
    /\ pc' = [pc EXCEPT ![p] = label]
    /\ UNCHANGED err

\* A stage that replaces `im` and falls through to the next statement.
Stage(p, at, name, newim, next) ==
    /\ pc[p] = at
    /\ im' = [im EXCEPT ![p] = newim]
    /\ trace' = [trace EXCEPT ![p] = Append(@, name)]
    /\ Goto(p, next)
    /\ UNCHANGED <<fsVars, args, save_params, created, mk, calc>>

\* The driver's loop body (lines 95-108) calls process_image; one call at a
\* time.
Call(p) ==
    /\ pc[p] = "idle"
    /\ \A q \in Procs : pc[q] = "idle"
    /\ calls < MaxCalls
    /\ \E a \in ArgSpace : args' = [args EXCEPT ![p] = a]
    /\ calls' = calls + 1
    /\ fs0' = fs
    /\ dirs0' = dirs
    /\ Goto(p, "validate")
    /\ UNCHANGED <<fs, dirs, trace, im, save_params, created, mk, calc>>

\* Parallel workers: a call may start while another one is running.
CallConc(p) ==
    /\ pc[p] = "idle"
    /\ calls < MaxConcCalls
    /\ \E a \in ConcArgSpace : args' = [args EXCEPT ![p] = a]
    /\ calls' = calls + 1
    /\ fs0' = fs
    /\ dirs0' = dirs
    /\ Goto(p, "validate")
    /\ UNCHANGED <<fs, dirs, trace, im, save_params, created, mk, calc>>

\* Lines 27-28.
\* Faulty variant: scale_factor < 0.
ValidateNegativeOnly(p) ==
    /\ pc[p] = "validate"
    /\ IF args[p].scale_factor.n < 0
       THEN Raise(p, "ValueError")
       ELSE Goto(p, "check_source")
    /\ UNCHANGED <<fsVars, args, trace, im, save_params, created, mk, calc>>

Validate(p) ==
    /\ pc[p] = "validate"
    /\ IF args[p].scale_factor.n <= 0
       THEN Raise(p, "ValueError")
       ELSE Goto(p, "check_source")
    /\ UNCHANGED <<fsVars, args, trace, im, save_params, created, mk, calc>>

\* Lines 33-34.
\* Faulty variant: no existence check.
CheckSourceSkipped(p) ==
    /\ pc[p] = "check_source"
    /\ Goto(p, "check_dir")
    /\ UNCHANGED <<fsVars, args, trace, im, save_params, created, mk, calc>>

CheckSource(p) ==
    /\ pc[p] = "check_source"
    /\ IF ~Exists(args[p].input_path)
       THEN Raise(p, "FileNotFoundError")
       ELSE Goto(p, "check_dir")
    /\ UNCHANGED <<fsVars, args, trace, im, save_params, created, mk, calc>>

\* Line 37: the exists() test; its answer may be stale when mkdir runs.
CheckDir(p) ==
    /\ pc[p] = "check_dir"
    /\ IF ~DirExists(Parent(args[p].output_path))
       THEN Goto(p, "mkdir")
       ELSE Goto(p, "decode")
    /\ UNCHANGED <<fsVars, args, trace, im, save_params, created, mk, calc>>

\* Path.mkdir is not one step: it issues os.mkdir system calls, and other
\* workers run between them.  A frame is one pending Path.mkdir call; st is
\* the stack of frames, innermost first.  MkdirStep performs the os.mkdir of
\* the innermost frame on the directory set ds and handles its outcome as
\* pathlib does:
\*   created                -> the frame returns;
\*   FileExistsError        -> returns if exist_ok (the path is a directory),
\*                             else the error propagates;
\*   FileNotFoundError      -> propagates unless parents; else the frame is
\*                             kept as a retry with parents=False and
\*                             parent.mkdir(parents=True, exist_ok=True) is
\*                             called first.
Frame(d, parents, exist_ok) == [d |-> d, parents |-> parents, exist_ok |-> exist_ok]

MkdirStep(ds, st) ==
    LET f == Head(st)
    IN  IF f.d \in ds
        THEN IF f.exist_ok
             THEN [dirs |-> ds, stack |-> Tail(st), err |-> "none"]
             ELSE [dirs |-> ds, stack |-> << >>, err |-> "FileExistsError"]
        ELSE IF SubSeq(f.d, 1, Len(f.d) - 1) \in ds
        THEN [dirs |-> ds \cup {f.d}, stack |-> Tail(st), err |-> "none"]
        ELSE IF f.parents
        THEN [dirs |-> ds,
              stack |-> <<Frame(SubSeq(f.d, 1, Len(f.d) - 1), TRUE, TRUE),
                          Frame(f.d, FALSE, f.exist_ok)>> \o Tail(st),
              err |-> "none"]
        ELSE [dirs |-> ds, stack |-> << >>, err |-> "FileNotFoundError"]

\* One os.mkdir system call of out_path.parent.mkdir(parents=True,
\* exist_ok=...); an empty stack means the call has just been entered.
MkdirCall(p, exist_ok) ==
    /\ pc[p] = "mkdir"
    /\ LET st == IF mk[p] = << >>
                 THEN <<Frame(Parent(args[p].output_path), TRUE, exist_ok)>>
                 ELSE mk[p]
           r == MkdirStep(dirs, st)
       IN  /\ dirs' = r.dirs
           /\ mk' = [mk EXCEPT ![p] = r.stack]
           /\ IF r.err # "none" THEN Raise(p, r.err)
              ELSE IF r.stack = << >> THEN Goto(p, "decode")
              ELSE UNCHANGED <<pc, err>>
    /\ UNCHANGED <<fs, fs0, dirs0, calls, args, trace, im, save_params,
                   created, calc>>

\* Line 38.
\* Faulty variant: mkdir without exist_ok.
MakeDirStrict(p) == MkdirCall(p, FALSE)

MakeDir(p) == MkdirCall(p, TRUE)

\* Line 40: Image.open reads the source file.
Decode(p) ==
    /\ pc[p] = "decode"
    /\ LET f == fs[args[p].input_path]
       IN  IF f.kind = "image"
           THEN /\ im' = [im EXCEPT ![p] =
                            [w |-> f.w, h |-> f.h, mode |-> f.mode,
                             exif |-> f.exif]]
                /\ trace' = [trace EXCEPT ![p] = Append(@, "decode")]
                /\ Goto(p, "exif_transpose")
           ELSE /\ Raise(p, IF f.kind = "none" THEN "FileNotFoundError"
                            ELSE "UnidentifiedImageError")
                /\ UNCHANGED <<im, trace>>
    /\ UNCHANGED <<fsVars, args, save_params, created, mk, calc>>

\* Line 42.
ExifTranspose(p) ==
    Stage(p, "exif_transpose", "exif_transpose", im[p], "grayscale")

\* Line 45.
Grayscale(p) ==
    Stage(p, "grayscale", "grayscale", [im[p] EXCEPT !.mode = "L"], "brightness")

\* Line 48.
Brightness(p) ==
    Stage(p, "brightness", "brightness",
          [im[p] EXCEPT !.exif = EnhanceInfo(@)], "contrast")

\* Line 49.
Contrast(p) ==
    Stage(p, "contrast", "contrast",
          [im[p] EXCEPT !.exif = EnhanceInfo(@)], "resize")

\* Lines 52-55.
Resize(p) ==
    Stage(p, "resize", "resize",
          [im[p] EXCEPT !.w = NewDim(im[p].w, args[p].scale_factor),
                        !.h = NewDim(im[p].h, args[p].scale_factor)],
          "sharpness")

\* Lines 58 and 61.
\* Faulty variant: pure_bw ignored.
SharpnessThenSave(p) == Stage(p, "sharpness", "sharpness", im[p], "select_params")

Sharpness(p) ==
    Stage(p, "sharpness", "sharpness", im[p],
          IF args[p].pure_bw THEN "threshold" ELSE "select_params")

\* Line 63.
Threshold(p) == Stage(p, "threshold", "threshold", im[p], "convert_1bit")

\* Line 64.
ConvertBilevel(p) ==
    Stage(p, "convert_1bit", "convert_1bit", [im[p] EXCEPT !.mode = "1"],
          "select_params")

\* Lines 67-83.
SelectParams(p) ==
    /\ pc[p] = "select_params"
    /\ save_params' = [save_params EXCEPT ![p] =
          SelectSaveParams(args[p].output_path.name, im[p].exif)]
    /\ Goto(p, "save_open")
    /\ UNCHANGED <<fsVars, args, trace, im, created, mk, calc>>

\* File extensions the imaging library has an encoder registered for (the ones
\* that occur in the modelled names).
ExtJpe == <<".", "j", "p", "e">>
ExtGif == <<".", "g", "i", "f">>
ExtBmp == <<".", "b", "m", "p">>
RegisteredExt == {ExtJpg, ExtJpeg, ExtJpe, ExtWebp, ExtPng, ExtGif, ExtBmp}

\* im.save(out_path, ...) looks the lower-cased extension up before it opens
\* the file: "unknown file extension" is a ValueError.
SaveError(name) ==
    IF Lower(SplitExt(name)) \notin RegisteredExt THEN "ValueError" ELSE "none"

\* What im.save leaves in the destination file on success.
Encoded(raster, params) ==
    ImageFile(raster.w, raster.h, raster.mode,
              IF "exif" \in DOMAIN params THEN params.exif ELSE "None")

\* Line 85, first half: im.save picks the encoder from the extension and
\* opens out_path itself for writing, which creates or truncates the file.
SaveOpen(p) ==
    /\ pc[p] = "save_open"
    /\ LET dst == args[p].output_path
       IN  IF SaveError(dst.name) # "none"
           THEN /\ Raise(p, SaveError(dst.name))
                /\ UNCHANGED <<fs, created>>
           ELSE IF ~DirExists(Parent(dst))
           THEN /\ Raise(p, "FileNotFoundError")
                /\ UNCHANGED <<fs, created>>
           ELSE /\ created' = [created EXCEPT ![p] = ~Exists(dst)]
                /\ fs' = [fs EXCEPT ![dst] = Partial]
                /\ Goto(p, "save_write")
    /\ UNCHANGED <<dirs, fs0, dirs0, calls, args, trace, im, save_params, mk,
                   calc>>

\* Line 85, second half: the encoder writes into the open file.  It may fail
\* (encoder error, disk full); the library then closes the file and, if the
\* save created it, may or may not remove it, depending on its version.
SaveWrite(p) ==
    /\ pc[p] = "save_write"
    /\ LET dst == args[p].output_path
       IN  \E ok \in BOOLEAN, removed \in BOOLEAN :
              IF ok
              THEN /\ removed = FALSE
                   /\ fs' = [fs EXCEPT ![dst] = Encoded(im[p], save_params[p])]
                   /\ trace' = [trace EXCEPT ![p] = Append(@, "save")]
                   /\ Goto(p, "done")
              ELSE /\ removed => created[p]
                   /\ fs' = [fs EXCEPT ![dst] =
                                IF removed THEN NoFile ELSE Partial]
                   /\ Raise(p, "OSError")
                   /\ UNCHANGED trace
    /\ UNCHANGED <<dirs, fs0, dirs0, calls, args, im, save_params, created, mk,
                   calc>>

\* process_image returned normally: the driver's loop goes on to the next file.
Return(p) ==
    /\ pc[p] = "done"
    /\ pc' = [pc EXCEPT ![p] = "idle"]
    /\ args' = [args EXCEPT ![p] = NoArgs]
    /\ trace' = [trace EXCEPT ![p] = << >>]
    /\ im' = [im EXCEPT ![p] = NoImage]
    /\ save_params' = [save_params EXCEPT ![p] = EmptyDict]
    /\ created' = [created EXCEPT ![p] = FALSE]
    /\ UNCHANGED <<fsVars, err, mk, calc>>

Next ==
    \E p \in Procs :
        \/ Call(p)
        \/ Validate(p)
        \/ CheckSource(p)
        \/ CheckDir(p)
        \/ MakeDir(p)
        \/ Decode(p)
        \/ ExifTranspose(p)
        \/ Grayscale(p)
        \/ Brightness(p)
        \/ Contrast(p)
        \/ Resize(p)
        \/ Sharpness(p)
        \/ Threshold(p)
        \/ ConvertBilevel(p)
        \/ SelectParams(p)
        \/ SaveOpen(p)
        \/ SaveWrite(p)
        \/ Return(p)

Spec == Init /\ [][Next]_vars

NextConc ==
    \E p \in Procs :
        \/ CallConc(p)
        \/ Validate(p)
        \/ CheckSource(p)
        \/ CheckDir(p)
        \/ MakeDir(p)
        \/ Decode(p)
        \/ ExifTranspose(p)
        \/ Grayscale(p)
        \/ Brightness(p)
        \/ Contrast(p)
        \/ Resize(p)
        \/ Sharpness(p)
        \/ Threshold(p)
        \/ ConvertBilevel(p)
        \/ SelectParams(p)
        \/ SaveOpen(p)
        \/ SaveWrite(p)
        \/ Return(p)

SpecConc == Init /\ [][NextConc]_vars

(***************************************************************************)
(* The pure computations on their own: each specification draws the        *)
(* inputs in its initial state and applies the computation once; no call   *)
(* of process_image is running.                                            *)
(***************************************************************************)
InitNoCall ==
    /\ InitWorkers
    /\ fs = BaseFiles
    /\ dirs = {Root}
    /\ fs0 = fs
    /\ dirs0 = dirs
    /\ calls = 0

mainVars == <<fs, dirs, fs0, dirs0, calls, pc, args, err, trace, im,
              save_params, created, mk>>

\* ---- Resize dimensions (lines 52-53) ----
MaxDim == 6
MaxScaleNum == 9
\* Scale factors n/d with d a power of two, so that the float product
\* im.width * scale_factor is exact.
PosScales == {Rat(n, d) : n \in 1..MaxScaleNum, d \in {1, 2, 4}}

InitDims ==
    /\ InitNoCall
    /\ \E w \in 1..MaxDim, h \in 1..MaxDim, s \in PosScales :
          calc = [op |-> "resize", done |-> FALSE, w |-> w, h |-> h, s |-> s,
                  new_w |-> 0, new_h |-> 0]

ResizeCalc ==
    /\ calc.op = "resize"
    /\ ~calc.done
    /\ calc' = [calc EXCEPT !.done = TRUE,
                            !.new_w = NewDim(calc.w, calc.s),
                            !.new_h = NewDim(calc.h, calc.s)]
    /\ UNCHANGED mainVars

SpecDims == InitDims /\ [][ResizeCalc]_vars

\* ---- Binarizer (lines 61-64) ----
MaxPixels == 4
PixelValues == {0, 50, 128, 200, 255}
Thresholds == {0, 50, 51, 128, 129, 200, 255}

Shapes == {sh \in (1..MaxPixels) \X (1..MaxPixels) : sh[1] * sh[2] <= MaxPixels}
Rasters == UNION {[1..sh[2] -> [1..sh[1] -> PixelValues]] : sh \in Shapes}

InitBin ==
    /\ InitNoCall
    /\ \E r \in Rasters, t \in Thresholds, d \in BOOLEAN :
          calc = [op |-> "binarize", done |-> FALSE, raster |-> r,
                  bw_threshold |-> t, dither |-> d, out |-> << >>]

BinarizeCalc ==
    /\ calc.op = "binarize"
    /\ ~calc.done
    /\ calc' = [calc EXCEPT !.done = TRUE,
                            !.out = Binarize(calc.raster, calc.bw_threshold,
                                             calc.dither)]
    /\ UNCHANGED mainVars

SpecBin == InitBin /\ [][BinarizeCalc]_vars

\* ---- Save options and the encoder lookup (lines 67-85) ----
Stems == {<<"a">>, <<"a", ".", "b">>, <<".", "h">>}

JpegExts == {<<".", "j", "p", "g">>, <<".", "J", "P", "G">>, <<".", "J", "p", "g">>,
             <<".", "j", "p", "e", "g">>, <<".", "J", "P", "E", "G">>}
WebpExts == {<<".", "w", "e", "b", "p">>, <<".", "W", "E", "B", "P">>}
PngExts == {<<".", "p", "n", "g">>, <<".", "P", "N", "G">>, <<".", "P", "n", "g">>}
OtherExts == {<< >>, <<".">>, <<".", "g", "i", "f">>, <<".", "j", "p", "g", "x">>,
              <<".", "p", "n">>, <<".", "j", "p", "e">>, <<".", "b", "m", "p">>}
Exts == JpegExts \cup WebpExts \cup PngExts \cup OtherExts
\* The exif block of the decoded source: absent or present.
ExifValues == {"None", "E"}

InitEnc ==
    /\ InitNoCall
    /\ \E st \in Stems, e \in Exts, x \in ExifValues :
          calc = [op |-> "encode", done |-> FALSE, stem |-> st, ext |-> e,
                  src_exif |-> x, exif_bytes |-> "None",
                  params |-> EmptyDict, err |-> "none"]

\* Lines 48-49 (what is left of the source's exif), 67-83 and the encoder
\* lookup of line 85.
SelectCalc ==
    /\ calc.op = "encode"
    /\ ~calc.done
    /\ LET exif_bytes == EnhanceInfo(EnhanceInfo(calc.src_exif))
           name == calc.stem \o calc.ext
       IN  calc' = [calc EXCEPT !.done = TRUE,
                                !.exif_bytes = exif_bytes,
                                !.params = SelectSaveParams(name, exif_bytes),
                                !.err = SaveError(name)]
    /\ UNCHANGED mainVars

SpecEnc == InitEnc /\ [][SelectCalc]_vars

(***************************************************************************)
(* Properties.                                                             *)
(***************************************************************************)
Terminal(p) == pc[p] \in {"done", "raised"}
Dest(p) == args[p].output_path
Source(p) == args[p].input_path

\* C1: a call with scale_factor <= 0 ends with ValueError, whatever the other
\* arguments and whether or not the source exists, and leaves the filesystem
\* as it was: no directory created, no file written, no decode attempted.
C1_NonPositiveScaleRejected ==
    \A p \in Procs :
        (pc[p] \notin {"idle", "validate"} /\ args[p].scale_factor.n <= 0)
        => /\ pc[p] = "raised"
           /\ err[p] = "ValueError"
           /\ trace[p] = << >>
           /\ fs = fs0
           /\ dirs = dirs0

\* C1 witness: scale_factor = 0 was rejected although the source exists and
\* the destination directory is missing.
C1_Witness ==
    \E p \in Procs :
        /\ pc[p] = "raised"
        /\ args[p].scale_factor.n = 0
        /\ Exists(Source(p))
        /\ ~DirExists(Parent(Dest(p)))

\* C2: a call with scale_factor > 0 and a missing source ends with
\* FileNotFoundError before any directory is created and before any decode:
\* the directory tree and the files are as they were.
C2_MissingSourceRejected ==
    \A p \in Procs :
        (/\ pc[p] \notin {"idle", "validate", "check_source"}
         /\ args[p].scale_factor.n > 0
         /\ fs0[Source(p)].kind = "none")
        => /\ pc[p] = "raised"
           /\ err[p] = "FileNotFoundError"
           /\ trace[p] = << >>
           /\ dirs = dirs0
           /\ fs = fs0

\* C2 witness: a missing source was rejected while the destination directory
\* did not exist.
C2_Witness ==
    \E p \in Procs :
        /\ pc[p] = "raised"
        /\ err[p] = "FileNotFoundError"
        /\ args[p].scale_factor.n > 0
        /\ ~Exists(Source(p))
        /\ ~DirExists(Parent(Dest(p)))

\* C3: every call is all-or-nothing for the destination file: it either
\* completes and the destination holds the encoded image, or it fails and the
\* destination file is exactly as it was before the call (not created, not
\* truncated, not partially written).
C3_AllOrNothing ==
    \A p \in Procs :
        /\ pc[p] = "done" => fs[Dest(p)].kind = "image"
        /\ pc[p] = "raised" => fs[Dest(p)] = fs0[Dest(p)]

\* C4: for any pair of source and destination paths, equal ones included, the
\* source file is the same after the call as before it.
C4_SourceUntouched ==
    \A p \in Procs : Terminal(p) => fs[Source(p)] = fs0[Source(p)]

\* C6: in a successful run every stage happens exactly once, in the order
\* decode, orientation, grayscale, brightness, contrast, resize, sharpness,
\* then threshold and 1-bit conversion only if pure_bw, then save.
C6_StageOrder ==
    \A p \in Procs :
        pc[p] = "done" =>
            trace[p] =
                IF args[p].pure_bw
                THEN <<"decode", "exif_transpose", "grayscale", "brightness",
                       "contrast", "resize", "sharpness", "threshold",
                       "convert_1bit", "save">>
                ELSE <<"decode", "exif_transpose", "grayscale", "brightness",
                       "contrast", "resize", "sharpness", "save">>

\* C6 witness: a run with pure_bw set has completed and written its output.
C6_Witness ==
    \E p \in Procs :
        /\ pc[p] = "done"
        /\ args[p].pure_bw
        /\ im[p].mode = "1"
        /\ fs[Dest(p)].kind = "image"

\* A parameter outside the domain its comment (lines 9-13) documents.
OutOfDomain(a) ==
    \/ ~Positive(a.brightness_factor)
    \/ ~Positive(a.contrast_factor)
    \/ ~Positive(a.sharpness_factor)
    \/ a.bw_threshold \notin 0..255

\* C9: with scale_factor > 0 and an existing source, an enhancement factor
\* <= 0 or a bw_threshold outside 0..255 ends the call with ValueError before
\* any pixel processing and without writing the destination.
C9_OtherParametersRejected ==
    \A p \in Procs :
        (/\ Terminal(p)
         /\ args[p].scale_factor.n > 0
         /\ fs0[Source(p)].kind # "none"
         /\ OutOfDomain(args[p]))
        => /\ err[p] = "ValueError"
           /\ trace[p] = << >>
           /\ fs[Dest(p)] = fs0[Dest(p)]

\* Positions after the directory step of lines 37-38.
PastMkdir ==
    {"decode", "exif_transpose", "grayscale", "brightness", "contrast",
     "resize", "sharpness", "threshold", "convert_1bit", "select_params",
     "save_open", "save_write", "done"}

C10_State ==
    \A p \in Procs :
        /\ err[p] # "FileExistsError"
        /\ (pc[p] = "raised" /\ Exists(Source(p)) /\ args[p].scale_factor.n > 0)
              => trace[p] # << >>
        /\ pc[p] \in PastMkdir => DirExists(Parent(Dest(p)))

C10_Step ==
    \A p \in Procs :
        (/\ pc[p] \in {"check_dir", "mkdir"}
         /\ (pc'[p] # pc[p] \/ mk'[p] # mk[p])
         /\ DirExists(Parent(Dest(p))))
        => dirs' = dirs

\* C10: with parallel workers no call fails at the directory step because the
\* directory already exists, the destination directory exists from the decode
\* on (so before the encode), and a worker passing the exists-check or the
\* mkdir while the directory exists leaves the directory tree unchanged.
C10_MkdirTolerant == [](C10_State) /\ [][C10_Step]_vars

\* C10 witness: a worker is inside mkdir (its first os.mkdir found the parent
\* missing) and meanwhile another worker, past its own directory step, has
\* created the directory the first one is still about to make.
C10_Witness ==
    \E p \in Procs, q \in Procs :
        /\ p # q
        /\ pc[p] = "mkdir"
        /\ mk[p] # << >>
        /\ DirExists(Parent(Dest(p)))
        /\ pc[q] \in PastMkdir
        /\ Parent(Dest(p)) \in Prefixes(Parent(Dest(q)))

\* r is n/d rounded to the nearest integer, ties to even.
IsNearestTiesEven(r, n, d) ==
    \/ (2 * (r * d - n) < d /\ 2 * (n - r * d) < d)
    \/ (2 * (r * d - n) = d /\ r % 2 = 0)
    \/ (2 * (n - r * d) = d /\ r % 2 = 0)

\* r is n/d rounded to the nearest integer, ties upward.
IsNearestTiesUp(r, n, d) == 2 * (r * d - n) <= d /\ 2 * (n - r * d) < d

DimTiesEven(r, size, s) ==
    /\ r >= 1
    /\ \/ IsNearestTiesEven(r, size * s.n, s.d)
       \/ (r = 1 /\ IsNearestTiesEven(0, size * s.n, s.d))

DimTiesUp(r, size, s) ==
    /\ r >= 1
    /\ \/ IsNearestTiesUp(r, size * s.n, s.d)
       \/ (r = 1 /\ IsNearestTiesUp(0, size * s.n, s.d))

C7_BinarizeIsThreshold ==
    (calc.op = "binarize" /\ calc.done)
    => /\ Len(calc.out) = Len(calc.raster)
       /\ \A y \in 1..Len(calc.raster) :
             /\ Len(calc.out[y]) = Len(calc.raster[y])
             /\ \A x \in 1..Len(calc.raster[y]) :
                   /\ calc.raster[y][x] >= calc.bw_threshold
                         => calc.out[y][x] = 255
                   /\ calc.raster[y][x] < calc.bw_threshold
                         => calc.out[y][x] = 0

\* C7 witness: threshold 128 with dithering on a raster that mixes 200 and 50
\* gave white and black in the same places.
C7_Witness ==
    /\ calc.op = "binarize"
    /\ calc.done
    /\ calc.dither
    /\ calc.bw_threshold = 128
    /\ calc.raster = <<<<200, 50>>, <<50, 200>>>>
    /\ calc.out = <<<<255, 0>>, <<0, 255>>>>

\* C8: the save options depend only on the destination extension, compared
\* without regard to case: .jpg/.jpeg give quality 90, subsampling 0,
\* optimize, plus exif iff the raster carries an exif block; .webp gives
\* quality 95, method 6; .png gives optimize only; every other extension
\* (none included) gives no options and raises no error.  exif is never passed
\* for a non-JPEG destination.
C8_SaveOptionsNoError ==
    (calc.op = "encode" /\ calc.done)
    => /\ calc.ext \in JpegExts =>
             calc.params =
                IF calc.exif_bytes = "E"
                THEN [quality |-> 90, subsampling |-> 0, optimize |-> TRUE,
                      exif |-> "E"]
                ELSE [quality |-> 90, subsampling |-> 0, optimize |-> TRUE]
       /\ calc.ext \in WebpExts => calc.params = [quality |-> 95, method |-> 6]
       /\ calc.ext \in PngExts => calc.params = [optimize |-> TRUE]
       /\ calc.ext \in OtherExts =>
             (DOMAIN calc.params = {} /\ calc.err = "none")
       /\ calc.ext \notin JpegExts => "exif" \notin DOMAIN calc.params

====
